---- MODULE Spec2Model ----
(***************************************************************************)
(* Model of dipdup/index.py: the index engine (Index.process, the sync /   *)
(* realtime state machine, OperationIndex level processing, single level   *)
(* rollback) and the operation matcher (_match_operations).                *)
(***************************************************************************)
EXTENDS Integers, Sequences, FiniteSets, TLC

(***************************************************************************)
(* Bounds                                                                  *)
(***************************************************************************)
MaxLevel == 2
MaxPush == 3
MaxOps == 3
MaxEmit == 4

(***************************************************************************)
(* Python values                                                           *)
(***************************************************************************)
\* Optional[int] holding None
NoLevel == -1
\* an unset address discriminator of a pattern config
NoAddr == "-"

\* Python truthiness of an Optional[int]: None and 0 are both falsy
Truthy(x) == x # NoLevel /\ x # 0

Levels == 0..MaxLevel

Op(l, h, c, e) ==
    [level |-> l, hash |-> h, counter |-> c, type |-> "transaction",
     entrypoint |-> e, target_address |-> "KT1A", originated_contract_address |-> NoAddr]

Orig(l, h, c, a) ==
    [level |-> l, hash |-> h, counter |-> c, type |-> "origination",
     entrypoint |-> "None", target_address |-> NoAddr, originated_contract_address |-> a]

NoneOp ==
    [level |-> NoLevel, hash |-> "None", counter |-> 0, type |-> "None",
     entrypoint |-> "None", target_address |-> NoAddr, originated_contract_address |-> NoAddr]

\* a handler argument: Transaction / Origination context, or the None placeholder
NoneArg == [kind |-> "None", data |-> NoneOp]

TxSlot(e, opt) ==
    [kind |-> "transaction", entrypoint |-> e, destination |-> NoAddr,
     originated_contract |-> NoAddr, optional |-> opt]

OrigSlot(a, opt) ==
    [kind |-> "origination", entrypoint |-> "None", destination |-> NoAddr,
     originated_contract |-> a, optional |-> opt]

Handler(cb, pat) == [callback |-> cb, pattern |-> pat]

(***************************************************************************)
(* Operation matcher                                                       *)
(***************************************************************************)
OperationSubgroup(op) == <<op.hash, op.counter>>

match_operation(pattern_config, operation) ==
    IF pattern_config.kind = "transaction"
    THEN /\ pattern_config.entrypoint = operation.entrypoint
         /\ (pattern_config.destination # NoAddr
                => pattern_config.destination = operation.target_address)
    ELSE (pattern_config.originated_contract # NoAddr
                => pattern_config.originated_contract = operation.originated_contract_address)

\* number of required (non-optional) slots of a pattern
RECURSIVE required_count(_)
required_count(pattern) ==
    IF pattern = <<>> THEN 0
    ELSE (IF Head(pattern).optional THEN 0 ELSE 1) + required_count(Tail(pattern))

Min(a, b) == IF a < b THEN a ELSE b

\* zip(handler_config.pattern, matched_operations): the shorter one decides
prepare_handler_args(handler_config, matched_operations) ==
    [i \in 1..Min(Len(handler_config.pattern), Len(matched_operations)) |->
        IF matched_operations[i] = NoneOp THEN NoneArg
        ELSE IF handler_config.pattern[i].kind = "transaction"
             THEN [kind |-> "Transaction", data |-> matched_operations[i]]
             ELSE [kind |-> "Origination", data |-> matched_operations[i]]]

\* the match appended to matched_subgroups
Emit(key, handler_config, matched_operations) ==
    [subgroup |-> key, callback |-> handler_config.callback,
     args |-> prepare_handler_args(handler_config, matched_operations)]

\* state of the cursor walk of one handler over one subgroup
WalkStart(out, memo) ==
    [operation_idx |-> 1, pattern_idx |-> 1, matched_operations |-> <<>>,
     out |-> out, memo |-> memo]

\* pattern_config.origination_processed(address): true when the slot has
\* already accepted the address; records the address otherwise
origination_processed(memo, handler_config, pattern_idx, address) ==
    <<handler_config.callback, pattern_idx, address>> \in memo

\* a classification that never looks at the addresses a slot has accepted
walk_case_no_memo(s, ops, handler_config) ==
    LET operation == ops[s.operation_idx]
        pattern_config == handler_config.pattern[s.pattern_idx]
    IN  IF match_operation(pattern_config, operation) THEN "matched"
        ELSE IF pattern_config.optional THEN "optional"
        ELSE "skip"

\* how one loop iteration classifies the pair under the cursors
walk_case(s, ops, handler_config) ==
    LET operation == ops[s.operation_idx]
        pattern_config == handler_config.pattern[s.pattern_idx]
        m0 == match_operation(pattern_config, operation)
        orig == operation.type = "origination" /\ pattern_config.kind = "origination"
        dup == orig /\ m0 /\ origination_processed(s.memo, handler_config, s.pattern_idx,
                                                   operation.originated_contract_address)
    IN  IF m0 /\ ~dup THEN "matched"
        ELSE IF pattern_config.optional THEN "optional"
        ELSE "skip"

\* one iteration of the while loop
walk_step(s, ops, key, handler_config) ==
    LET operation == ops[s.operation_idx]
        pattern_config == handler_config.pattern[s.pattern_idx]
        m0 == match_operation(pattern_config, operation)
        orig == operation.type = "origination" /\ pattern_config.kind = "origination"
        memo1 == IF orig /\ m0
                 THEN s.memo \cup {<<handler_config.callback, s.pattern_idx,
                                     operation.originated_contract_address>>}
                 ELSE s.memo
        c == walk_case(s, ops, handler_config)
        s1 == IF c = "matched"
              THEN [s EXCEPT !.matched_operations = Append(@, operation),
                             !.pattern_idx = @ + 1, !.operation_idx = @ + 1, !.memo = memo1]
              ELSE IF c = "optional"
              THEN [s EXCEPT !.matched_operations = Append(@, NoneOp),
                             !.pattern_idx = @ + 1, !.memo = memo1]
              ELSE [s EXCEPT !.operation_idx = @ + 1, !.memo = memo1]
    IN  IF s1.pattern_idx = Len(handler_config.pattern) + 1
        THEN [s1 EXCEPT !.out = Append(@, Emit(key, handler_config, s1.matched_operations)),
                        !.matched_operations = <<>>, !.pattern_idx = 1]
        ELSE s1

\* the check after the loop
walk_tail(s, key, handler_config) ==
    IF Len(s.matched_operations) >= required_count(handler_config.pattern)
    THEN [s EXCEPT !.out = Append(@, Emit(key, handler_config, s.matched_operations))]
    ELSE s

\* F(x) with x evaluated once, before F is applied
Strict(F(_), x) == CHOOSE r \in {F(v) : v \in {x}} : TRUE

RECURSIVE walk(_, _, _, _)
walk(s, ops, key, handler_config) ==
    IF s.operation_idx <= Len(ops)
    THEN Strict(LAMBDA t : walk(t, ops, key, handler_config),
                walk_step(s, ops, key, handler_config))
    ELSE walk_tail(s, key, handler_config)

\* subgroups taken in the order of last appearance of their key
RECURSIVE subgroup_keys_newest_first(_, _)
subgroup_keys_newest_first(operations, seen) ==
    IF operations = <<>> THEN seen
    ELSE LET k == OperationSubgroup(Head(operations))
         IN  subgroup_keys_newest_first(
                 Tail(operations),
                 <<k>> \o SelectSeq(seen, LAMBDA x : x # k))

\* keys of operation_subgroups in insertion order
RECURSIVE subgroup_keys(_, _)
subgroup_keys(operations, seen) ==
    IF operations = <<>> THEN seen
    ELSE LET k == OperationSubgroup(Head(operations))
         IN  subgroup_keys(Tail(operations),
                           IF \E i \in 1..Len(seen) : seen[i] = k THEN seen ELSE Append(seen, k))

subgroup_ops(operations, key) ==
    SelectSeq(operations, LAMBDA op : OperationSubgroup(op) = key)

\* inner loop: every handler of the config over one subgroup
RECURSIVE match_handlers(_, _, _, _, _)
match_handlers(acc, ops, key, handlers, i) ==
    IF i > Len(handlers) THEN acc
    ELSE Strict(LAMBDA r : match_handlers([out |-> r.out, memo |-> r.memo],
                                          ops, key, handlers, i + 1),
                walk(WalkStart(acc.out, acc.memo), ops, key, handlers[i]))

\* outer loop: every subgroup in insertion order
RECURSIVE match_subgroups(_, _, _, _, _)
match_subgroups(acc, operations, keys, handlers, i) ==
    IF i > Len(keys) THEN acc
    ELSE Strict(LAMBDA a : match_subgroups(a, operations, keys, handlers, i + 1),
                Strict(LAMBDA ops : match_handlers(acc, ops, keys[i], handlers, 1),
                       subgroup_ops(operations, keys[i])))

hashes_of(operations) == {operations[i].hash : i \in 1..Len(operations)}

\* _match_operations: the matches, the new _head_hashes, the origination memo
match_operations(operations, handlers, memo) ==
    Strict(LAMBDA r : [matched_subgroups |-> r.out, head_hashes |-> hashes_of(operations),
                       memo |-> r.memo],
           Strict(LAMBDA keys : match_subgroups([out |-> <<>>, memo |-> memo], operations,
                                                keys, handlers, 1),
                  subgroup_keys(operations, <<>>)))

(***************************************************************************)
(* Index engine: state                                                     *)
(***************************************************************************)
VARIABLES
    config,          \* the index config: last_level (one-shot mode when truthy)
    sync_level,      \* datasource.sync_level, NoLevel until the handshake
    level,           \* persisted Index row: level
    status,          \* persisted Index row: status
    effects,         \* persisted side effects of committed handler calls
    queue,           \* self._queue
    rollback_level,  \* self._rollback_level
    head_hashes,     \* self._head_hashes
    pc,              \* position of the process() coroutine
    sync_last,       \* last_level of the running _synchronize
    sync_ret,        \* who called _synchronize: "oneshot" or "process"
    fetched,         \* level of the last batch the fetcher yielded
    plo_ret,         \* who called _process_level_operations: "sync" or "queue"
    pending,         \* matches of the open transaction not fired yet
    tx_effects,      \* uncommitted writes of the open global transaction
    tx_level,        \* level of the batch of the open transaction
    err,             \* exception that left process()
    pushed,          \* number of realtime messages pushed so far
    ev,              \* history: what the last step did
    prev,            \* history: the last successfully processed batch
    feed,            \* datasource: level of the last block of the realtime feed
    mt,              \* one _match_operations walk: its inputs and cursors
    ini,             \* startup: the engines in initialize_state, Head rows, block_cache
    variant          \* the index variant: "operation", "big_map" or "head"

vars == <<config, sync_level, level, status, effects, queue, rollback_level,
          head_hashes, pc, sync_last, sync_ret, fetched, plo_ret, pending,
          tx_effects, tx_level, err, pushed, ev, prev, feed, mt, ini, variant>>

\* what no step of the index engine changes
cfgVars == <<config, feed, mt, ini, variant>>
rowVars == <<level, status, effects>>
memVars == <<rollback_level, head_hashes>>
syncVars == <<sync_last, sync_ret, fetched>>
txVars == <<plo_ret, pending, tx_effects, tx_level>>

\* handlers of the modelled index config: [required transfer, optional approve]
Handlers ==
    << Handler("on_transfer", << TxSlot("transfer", FALSE), TxSlot("approve", TRUE) >>) >>

B1(l) == << Op(l, "h1", 1, "transfer") >>
B12(l) == << Op(l, "h1", 1, "transfer"), Op(l, "h2", 1, "transfer") >>
B3(l) == << Op(l, "h3", 1, "mint") >>

\* realtime batches the datasource may push for the block of level l
PushBatches(l) == {B1(l), B12(l)}

\* the realtime feed delivers blocks in ascending order; the block of the
\* current head comes again after a single level rollback
FeedLevels == {feed, feed + 1} \cap Levels

\* batches the fetcher may yield at level l
FetchBatches(l) == {B1(l), B3(l)}

OpsItem(ops) == [kind |-> "operations", ops |-> ops, level |-> NoLevel]
RollbackItem(l) == [kind |-> "rollback", ops |-> <<>>, level |-> l]

\* history: a queue item stamped with where process() stood when it was pushed
Stamped(item) == [kind |-> item.kind, ops |-> item.ops, level |-> item.level, at |-> pc]

\* no walk in progress
NoWalk == [pc |-> "none", ops |-> <<>>, handler |-> Handler("none", <<>>),
           s |-> WalkStart(<<>>, {})]

NoPrev == [level |-> NoLevel, batch |-> <<>>, armed |-> {}]

\* no engine is in initialize_state
NoStartup == [eng |-> <<>>, heads |-> <<>>, chain |-> <<>>, block_cache |-> <<>>,
              get_block |-> <<>>, halted |-> FALSE]

NoEvent ==
    [op |-> "none", src |-> "none", batch |-> <<>>, arg |-> NoLevel, level |-> NoLevel,
     pre_level |-> NoLevel, pre_rb |-> NoLevel, pre_hashes |-> {}, pre_queue |-> <<>>,
     pre_effects |-> <<>>, result |-> "none", fired |-> <<>>, prev |-> NoPrev]

Init ==
    /\ config \in {[last_level |-> l] : l \in {NoLevel, 1}}
    /\ sync_level = NoLevel
    /\ level = 0
    /\ status = "NEW"
    /\ effects = <<>>
    /\ queue = <<>>
    /\ rollback_level = NoLevel
    /\ head_hashes = {}
    /\ pc = "idle"
    /\ sync_last = NoLevel
    /\ sync_ret = "none"
    /\ fetched = NoLevel
    /\ plo_ret = "none"
    /\ pending = <<>>
    /\ tx_effects = <<>>
    /\ tx_level = NoLevel
    /\ err = "none"
    /\ pushed = 0
    /\ ev = NoEvent
    /\ prev = NoPrev
    /\ feed = 0
    /\ mt = NoWalk
    /\ ini = NoStartup
    /\ variant = "operation"

(***************************************************************************)
(* Storage and context                                                     *)
(***************************************************************************)
\* the side effect one handler call writes
EffectOf(m, l) == [level |-> l, subgroup |-> m.subgroup, callback |-> m.callback, args |-> m.args]

\* fire_handler inside `async with in_global_transaction()`: the write goes to
\* the open transaction, the committed rows are untouched
fire_in_transaction(m, l) ==
    [committed |-> effects, open |-> Append(tx_effects, EffectOf(m, l))]

\* scope exit of in_global_transaction without an exception: everything written
\* inside the scope becomes visible at once
transaction_commit(committed, open) == committed \o open

\* scope exit of in_global_transaction with an exception: nothing is written
transaction_rollback(committed, open) == committed

(***************************************************************************)
(* Index                                                                   *)
(***************************************************************************)
\* _extract_level that takes the level of the first item
extract_level_first(message) == message[1].level

\* _extract_level: the common level, NoLevel standing for the RuntimeError
extract_level(message) ==
    LET batch_levels == {message[i].level : i \in 1..Len(message)}
    IN  IF Cardinality(batch_levels) # 1 THEN NoLevel
        ELSE CHOOSE l \in batch_levels : TRUE

\* `if self._rollback_level:`
rollback_armed(rb) == Truthy(rb)

\* the guard of the else branch: `elif level < self.state.level: raise`
level_accepted(batch_level, state_level) == ~(batch_level < state_level)

\* an index at the datasource level counted as behind it
behind_or_at_datasource(state_level, sl) == state_level <= sl

\* `elif self.state.level < self._datasource.sync_level:`
behind_datasource(state_level, sl) == state_level < sl

\* a queue that survives the choice of the synchronization branch
queue_clear_keeps(q) == q

\* `self._queue.clear()`
queue_clear(q) == <<>>

\* where process() continues after the one-shot block: the code has no return
\* there and goes on with the sync_level check
after_oneshot == "check"

PloResult(kind, l, rb, hh, matches) ==
    [kind |-> kind, level |-> l, rb |-> rb, hh |-> hh, matches |-> matches]

\* matching and the choice between the plain level bump and the transaction
plo_match(operations, batch_level, rb) ==
    Strict(LAMBDA m : PloResult(IF m.matched_subgroups = <<>> THEN "bump" ELSE "tx",
                                batch_level, rb, m.head_hashes, m.matched_subgroups),
           match_operations(operations, Handlers, {}))

\* _process_level_operations without the `if not operations: return`
plo_outcome_no_empty_return(operations, state_level, rb, hh) ==
    LET batch_level == extract_level(operations) IN
    IF batch_level = NoLevel THEN PloResult("RuntimeError", NoLevel, rb, hh, <<>>)
    ELSE IF rollback_armed(rb)
    THEN IF Cardinality({batch_level, rb, state_level}) # 1
         THEN PloResult("RuntimeError", batch_level, rb, hh, <<>>)
         ELSE LET expected_hashes == hh
                  received_hashes == hashes_of(operations)
                  new_hashes == received_hashes \ expected_hashes
                  missing_hashes == expected_hashes \ received_hashes
              IN  IF missing_hashes # {}
                  THEN PloResult("reindex", batch_level, rb, hh, <<>>)
                  ELSE plo_match(SelectSeq(operations, LAMBDA op : op.hash \in new_hashes),
                                 batch_level, NoLevel)
    ELSE IF ~level_accepted(batch_level, state_level)
         THEN PloResult("RuntimeError", batch_level, rb, hh, <<>>)
         ELSE plo_match(operations, batch_level, rb)

\* _process_level_operations up to the point where handlers are fired
plo_outcome(operations, state_level, rb, hh) ==
    IF operations = <<>> THEN PloResult("empty", NoLevel, rb, hh, <<>>)
    ELSE LET batch_level == extract_level(operations) IN
    IF batch_level = NoLevel THEN PloResult("RuntimeError", NoLevel, rb, hh, <<>>)
    ELSE IF rollback_armed(rb)
    THEN IF Cardinality({batch_level, rb, state_level}) # 1
         THEN PloResult("RuntimeError", batch_level, rb, hh, <<>>)
         ELSE LET expected_hashes == hh
                  received_hashes == hashes_of(operations)
                  new_hashes == received_hashes \ expected_hashes
                  missing_hashes == expected_hashes \ received_hashes
              IN  IF missing_hashes # {}
                  THEN PloResult("reindex", batch_level, rb, hh, <<>>)
                  ELSE plo_match(SelectSeq(operations, LAMBDA op : op.hash \in new_hashes),
                                 batch_level, NoLevel)
    ELSE IF ~level_accepted(batch_level, state_level)
         THEN PloResult("RuntimeError", batch_level, rb, hh, <<>>)
         ELSE plo_match(operations, batch_level, rb)

\* _process_level_operations(operations), called from `src` ("sync" or "queue")
process_level_operations(operations, src) ==
    \E o \in {plo_outcome(operations, level, rollback_level, head_hashes)} :
    /\ rollback_level' = o.rb
    /\ head_hashes' = o.hh
    /\ level' = IF o.kind = "bump" THEN o.level ELSE level
    /\ pc' = IF o.kind \in {"empty", "bump"} THEN src
             ELSE IF o.kind = "tx" THEN "tx"
             ELSE IF o.kind = "reindex" THEN "reindexed"
             ELSE "failed"
    /\ err' = IF o.kind = "RuntimeError" THEN "RuntimeError"
              ELSE IF o.kind = "reindex" THEN "reindex(ROLLBACK)"
              ELSE err
    /\ plo_ret' = IF o.kind = "tx" THEN src ELSE "none"
    /\ pending' = IF o.kind = "tx" THEN o.matches ELSE <<>>
    /\ tx_level' = IF o.kind = "tx" THEN o.level ELSE NoLevel
    /\ tx_effects' = <<>>
    /\ ev' = [NoEvent EXCEPT !.op = "plo", !.src = src, !.batch = operations,
                             !.level = o.level, !.pre_level = level,
                             !.pre_rb = rollback_level, !.pre_hashes = head_hashes,
                             !.pre_effects = effects,
                             !.result = o.kind, !.fired = o.matches, !.prev = prev]
    /\ prev' = IF o.kind = "bump"
               THEN [level |-> o.level, batch |-> operations, armed |-> {}]
               ELSE prev
    /\ UNCHANGED <<status, effects>>

(***************************************************************************)
(* Producers (driven by the dispatcher) and the datasource                 *)
(***************************************************************************)
CanPush == pc \in {"idle", "sync"} /\ pushed < MaxPush

push_operations(operations) ==
    /\ CanPush
    /\ queue' = Append(queue, Stamped(OpsItem(operations)))
    /\ pushed' = pushed + 1
    /\ feed' = operations[1].level
    /\ ev' = NoEvent
    /\ UNCHANGED <<config, mt, ini, variant, sync_level, rowVars, memVars, pc, syncVars, txVars, err, prev>>

push_rollback(l) ==
    /\ CanPush
    /\ queue' = Append(queue, Stamped(RollbackItem(l)))
    /\ pushed' = pushed + 1
    /\ ev' = NoEvent
    /\ UNCHANGED <<cfgVars, sync_level, rowVars, memVars, pc, syncVars, txVars, err, prev>>

\* the datasource learns the head level (realtime handshake, reconnect)
set_sync_level(l) ==
    /\ pc = "idle"
    /\ l > sync_level
    /\ sync_level' = l
    /\ ev' = NoEvent
    /\ UNCHANGED <<cfgVars, rowVars, queue, memVars, pc, syncVars, txVars, err, pushed, prev>>

(***************************************************************************)
(* Index.process                                                           *)
(***************************************************************************)
\* process() is called: the one-shot block first when last_level is set
process ==
    /\ pc = "idle"
    /\ IF Truthy(config.last_level)
       THEN /\ pc' = "enter_sync"
            /\ sync_last' = config.last_level
            /\ sync_ret' = "oneshot"
       ELSE /\ pc' = "check"
            /\ UNCHANGED <<sync_last, sync_ret>>
    /\ err' = "none"
    /\ ev' = [NoEvent EXCEPT !.op = "process"]
    /\ UNCHANGED <<cfgVars, sync_level, rowVars, queue, memVars, fetched, txVars, pushed, prev>>

\* where _synchronize returns to
SyncReturn == IF sync_ret = "oneshot" THEN "oneshot_status" ELSE "idle"

\* _enter_sync_state without the `first_level == last_level` return
enter_sync_always ==
    /\ pc = "enter_sync"
    /\ IF status = "ONESHOT"
       THEN /\ pc' = SyncReturn
            /\ ev' = [NoEvent EXCEPT !.op = "enter_sync", !.arg = sync_last,
                                     !.pre_level = level, !.result = "noop"]
            /\ UNCHANGED <<status, err, fetched>>
       ELSE IF level > sync_last
       THEN /\ pc' = "failed"
            /\ err' = "RuntimeError"
            /\ ev' = [NoEvent EXCEPT !.op = "enter_sync", !.arg = sync_last,
                                     !.pre_level = level, !.result = "RuntimeError"]
            /\ UNCHANGED <<status, fetched>>
       ELSE /\ status' = "SYNCING"
            /\ fetched' = level
            /\ pc' = "sync"
            /\ ev' = [NoEvent EXCEPT !.op = "enter_sync", !.arg = sync_last,
                                     !.pre_level = level, !.result = "syncing"]
            /\ UNCHANGED err
    /\ UNCHANGED <<cfgVars, sync_level, level, effects, queue, memVars, sync_last, sync_ret,
                   txVars, pushed, prev>>

\* _enter_sync_state without the `first_level > last_level` failure
enter_sync_never_fails ==
    /\ pc = "enter_sync"
    /\ IF status = "ONESHOT" \/ level >= sync_last
       THEN /\ pc' = SyncReturn
            /\ ev' = [NoEvent EXCEPT !.op = "enter_sync", !.arg = sync_last,
                                     !.pre_level = level, !.result = "noop"]
            /\ UNCHANGED <<status, err, fetched>>
       ELSE /\ status' = "SYNCING"
            /\ fetched' = level
            /\ pc' = "sync"
            /\ ev' = [NoEvent EXCEPT !.op = "enter_sync", !.arg = sync_last,
                                     !.pre_level = level, !.result = "syncing"]
            /\ UNCHANGED err
    /\ UNCHANGED <<cfgVars, sync_level, level, effects, queue, memVars, sync_last, sync_ret,
                   txVars, pushed, prev>>

\* _synchronize: _enter_sync_state(last_level)
enter_sync_state ==
    /\ pc = "enter_sync"
    /\ IF status = "ONESHOT" \/ level = sync_last
       THEN /\ pc' = SyncReturn
            /\ ev' = [NoEvent EXCEPT !.op = "enter_sync", !.arg = sync_last,
                                     !.pre_level = level, !.result = "noop"]
            /\ UNCHANGED <<status, err, fetched>>
       ELSE IF level > sync_last
       THEN /\ pc' = "failed"
            /\ err' = "RuntimeError"
            /\ ev' = [NoEvent EXCEPT !.op = "enter_sync", !.arg = sync_last,
                                     !.pre_level = level, !.result = "RuntimeError"]
            /\ UNCHANGED <<status, fetched>>
       ELSE /\ status' = "SYNCING"
            /\ fetched' = level
            /\ pc' = "sync"
            /\ ev' = [NoEvent EXCEPT !.op = "enter_sync", !.arg = sync_last,
                                     !.pre_level = level, !.result = "syncing"]
            /\ UNCHANGED err
    /\ UNCHANGED <<cfgVars, sync_level, level, effects, queue, memVars, sync_last, sync_ret,
                   txVars, pushed, prev>>

\* the fetcher yields the next batch, which is processed
fetch_operations_by_level(operations) ==
    /\ pc = "sync"
    /\ fetched' = operations[1].level
    /\ process_level_operations(operations, "sync")
    /\ UNCHANGED <<cfgVars, sync_level, queue, sync_last, sync_ret, pushed>>

\* the fetcher is exhausted: _exit_sync_state(last_level)
exit_sync_state ==
    /\ pc = "sync"
    /\ status' = "REALTIME"
    /\ level' = sync_last
    /\ pc' = SyncReturn
    /\ ev' = [NoEvent EXCEPT !.op = "exit_sync", !.arg = sync_last, !.src = sync_ret,
                             !.pre_level = level]
    /\ UNCHANGED <<cfgVars, sync_level, effects, queue, memVars, syncVars, txVars, err,
                   pushed, prev>>

\* `await self.state.update_status(IndexStatus.ONESHOT, last_level)`
oneshot_status ==
    /\ pc = "oneshot_status"
    /\ status' = "ONESHOT"
    /\ level' = config.last_level
    /\ pc' = after_oneshot
    /\ ev' = [NoEvent EXCEPT !.op = "oneshot_status", !.pre_level = level]
    /\ UNCHANGED <<cfgVars, sync_level, effects, queue, memVars, syncVars, txVars, err,
                   pushed, prev>>

\* the sync_level check and the choice between _synchronize and _process_queue
check_sync_level ==
    /\ pc = "check"
    /\ LET r == IF sync_level = NoLevel THEN "RuntimeError"
                ELSE IF behind_datasource(level, sync_level) THEN "sync"
                ELSE "queue"
       IN  /\ ev' = [NoEvent EXCEPT !.op = "check", !.arg = sync_level, !.pre_level = level,
                                    !.pre_queue = queue, !.pre_effects = effects,
                                    !.result = r]
           /\ pc' = IF r = "RuntimeError" THEN "failed"
                    ELSE IF r = "sync" THEN "enter_sync" ELSE "queue"
           /\ err' = IF r = "RuntimeError" THEN "RuntimeError" ELSE err
           /\ queue' = IF r = "sync" THEN queue_clear(queue) ELSE queue
           /\ sync_last' = IF r = "sync" THEN sync_level ELSE sync_last
           /\ sync_ret' = IF r = "sync" THEN "process" ELSE sync_ret
    /\ UNCHANGED <<cfgVars, sync_level, rowVars, memVars, fetched, txVars, pushed, prev>>

(***************************************************************************)
(* OperationIndex: realtime queue, rollback, the level transaction         *)
(***************************************************************************)
\* _single_level_rollback(level): what it does to _rollback_level
rollback_outcome(l, state_level, rb) ==
    IF rollback_armed(rb) THEN [kind |-> "RuntimeError", rb |-> rb]
    ELSE IF state_level < l THEN [kind |-> "ignored", rb |-> rb]
    ELSE IF state_level = l THEN [kind |-> "armed", rb |-> l]
    ELSE [kind |-> "RuntimeError", rb |-> rb]

single_level_rollback(l) ==
    LET o == rollback_outcome(l, level, rollback_level) IN
    /\ rollback_level' = o.rb
    /\ pc' = IF o.kind = "RuntimeError" THEN "failed" ELSE "queue"
    /\ err' = IF o.kind = "RuntimeError" THEN "RuntimeError" ELSE err
    /\ ev' = [NoEvent EXCEPT !.op = "rollback", !.src = "queue", !.arg = l,
                             !.pre_level = level, !.pre_rb = rollback_level,
                             !.pre_hashes = head_hashes, !.result = o.kind, !.prev = prev]
    /\ prev' = IF o.kind = "armed" THEN [prev EXCEPT !.armed = @ \cup {l}] ELSE prev
    /\ UNCHANGED <<rowVars, head_hashes, txVars>>

\* _process_queue: the loop ends when the queue is empty
process_queue_done ==
    /\ pc = "queue"
    /\ queue = <<>>
    /\ pc' = "idle"
    /\ ev' = NoEvent
    /\ UNCHANGED <<cfgVars, sync_level, rowVars, queue, memVars, syncVars, txVars, err,
                   pushed, prev>>

\* _process_queue: popleft() of a SingleLevelRollback
process_queue_rollback ==
    /\ pc = "queue"
    /\ queue # <<>>
    /\ Head(queue).kind = "rollback"
    /\ queue' = Tail(queue)
    /\ single_level_rollback(Head(queue).level)
    /\ UNCHANGED <<cfgVars, sync_level, syncVars, pushed>>

\* _process_queue: popleft() of an operations batch
process_queue_operations ==
    /\ pc = "queue"
    /\ queue # <<>>
    /\ Head(queue).kind = "operations"
    /\ queue' = Tail(queue)
    /\ process_level_operations(Head(queue).ops, "queue")
    /\ UNCHANGED <<cfgVars, sync_level, syncVars, pushed>>

\* inside the transaction: the next matched handler is called and returns
call_matched_handler ==
    /\ pc = "tx"
    /\ pending # <<>>
    /\ LET r == fire_in_transaction(Head(pending), tx_level)
       IN  /\ effects' = r.committed
           /\ tx_effects' = r.open
    /\ pending' = Tail(pending)
    /\ UNCHANGED <<cfgVars, sync_level, level, status, queue, memVars, pc, syncVars,
                   plo_ret, tx_level, err, pushed, ev, prev>>

\* inside the transaction: the next matched handler raises; the scope exits with
\* the exception, which leaves process()
call_matched_handler_fails ==
    /\ pc = "tx"
    /\ pending # <<>>
    /\ effects' = transaction_rollback(effects, tx_effects)
    /\ tx_effects' = <<>>
    /\ pending' = <<>>
    /\ tx_level' = NoLevel
    /\ plo_ret' = "none"
    /\ pc' = "idle"
    /\ err' = "HandlerError"
    /\ ev' = [ev EXCEPT !.result = "aborted"]
    /\ UNCHANGED <<cfgVars, sync_level, level, status, queue, memVars, syncVars, pushed, prev>>

\* all handlers returned: update_status(level=level) inside the scope, then the
\* scope exits and commits
commit_level ==
    /\ pc = "tx"
    /\ pending = <<>>
    /\ effects' = transaction_commit(effects, tx_effects)
    /\ level' = tx_level
    /\ tx_effects' = <<>>
    /\ tx_level' = NoLevel
    /\ plo_ret' = "none"
    /\ pc' = plo_ret
    /\ ev' = [ev EXCEPT !.result = "committed"]
    /\ prev' = [level |-> tx_level, batch |-> ev.batch, armed |-> {}]
    /\ UNCHANGED <<cfgVars, sync_level, status, queue, memVars, syncVars, pending, err, pushed>>

Next ==
    \/ \E l \in FeedLevels : \E b \in PushBatches(l) : push_operations(b)
    \/ push_rollback(feed)
    \/ \E l \in Levels : set_sync_level(l)
    \/ process
    \/ enter_sync_state
    \/ \E l \in Levels : \E b \in FetchBatches(l) :
          fetched < l /\ l <= sync_last /\ fetch_operations_by_level(b)
    \/ exit_sync_state
    \/ oneshot_status
    \/ check_sync_level
    \/ process_queue_done
    \/ process_queue_rollback
    \/ process_queue_operations
    \/ call_matched_handler
    \/ call_matched_handler_fails
    \/ commit_level

Spec == Init /\ [][Next]_vars

(***************************************************************************)
(* The matcher on its own: one handler pattern walked over one subgroup,   *)
(* one loop iteration per step                                             *)
(***************************************************************************)
engineVars == <<config, feed, ini, variant, sync_level, level, status, effects, queue, rollback_level,
                head_hashes, pc, sync_last, sync_ret, fetched, plo_ret, pending,
                tx_effects, tx_level, err, pushed, ev, prev>>

Entrypoints == {"transfer", "approve", "mint"}

\* subgroups: up to MaxOps transactions and originations sharing (hash, counter)
RECURSIVE SeqsUpTo(_, _)
SeqsUpTo(S, n) ==
    IF n = 0 THEN {<<>>}
    ELSE LET shorter == SeqsUpTo(S, n - 1)
         IN  shorter \cup {Append(q, x) : q \in {r \in shorter : Len(r) = n - 1}, x \in S}

\* contracts an origination of the subgroup may originate
Addresses == {"KT1X", "KT1Y"}

Subgroups ==
    SeqsUpTo({Op(1, "h1", 1, e) : e \in Entrypoints}
                \cup {Orig(1, "h1", 1, a) : a \in Addresses}, MaxOps) \ {<<>>}

\* patterns: one or two slots, transaction or origination, required or optional
Slots ==
    {TxSlot(e, o) : e \in {"transfer", "approve"}, o \in BOOLEAN}
        \cup {OrigSlot(a, o) : a \in {NoAddr, "KT1X"}, o \in BOOLEAN}
Patterns == SeqsUpTo(Slots, 2) \ {<<>>}

InitMatch ==
    /\ config = [last_level |-> NoLevel]
    /\ sync_level = NoLevel
    /\ level = 0
    /\ status = "NEW"
    /\ effects = <<>>
    /\ queue = <<>>
    /\ rollback_level = NoLevel
    /\ head_hashes = {}
    /\ pc = "idle"
    /\ sync_last = NoLevel
    /\ sync_ret = "none"
    /\ fetched = NoLevel
    /\ plo_ret = "none"
    /\ pending = <<>>
    /\ tx_effects = <<>>
    /\ tx_level = NoLevel
    /\ err = "none"
    /\ pushed = 0
    /\ ev = NoEvent
    /\ prev = NoPrev
    /\ feed = 0
    /\ ini = NoStartup
    /\ variant = "operation"
    /\ mt \in {[pc |-> "loop", ops |-> ops, handler |-> Handler("on_match", pat),
                 s |-> WalkStart(<<>>, {})] : ops \in Subgroups, pat \in Patterns}

\* `while operation_idx < len(operations)`: one iteration
match_loop ==
    /\ mt.pc = "loop"
    /\ mt.s.operation_idx <= Len(mt.ops)
    /\ Len(mt.s.out) < MaxEmit
    /\ mt' = [mt EXCEPT !.s = walk_step(mt.s, mt.ops, OperationSubgroup(mt.ops[1]),
                                         mt.handler)]
    /\ UNCHANGED engineVars

\* the loop is left: the check after it
match_tail ==
    /\ mt.pc = "loop"
    /\ mt.s.operation_idx > Len(mt.ops)
    /\ mt' = [mt EXCEPT !.s = walk_tail(mt.s, OperationSubgroup(mt.ops[1]), mt.handler),
                         !.pc = "done"]
    /\ UNCHANGED engineVars

NextMatch == match_loop \/ match_tail

SpecMatch == InitMatch /\ [][NextMatch]_vars

(***************************************************************************)
(* Startup: Index.initialize_state of the engines of one process, which     *)
(* share the module level block_cache and interleave at their awaits        *)
(***************************************************************************)
Engines == {"e1", "e2"}
Datasources == {"d1", "d2"}
BlockHashes == {"A", "B"}
NoBlock == "None"

\* levels a Head row can be at
HeadLevels == Levels \ {0}

NoHead == [exists |-> FALSE, level |-> 0, hash |-> NoBlock]

\* what models.Head can hold for one datasource
HeadRows ==
    {NoHead} \cup {[exists |-> TRUE, level |-> l, hash |-> h] : l \in HeadLevels, h \in BlockHashes}

\* the Index row of an engine before its first call: absent, or present at a level
IndexRows == {[existed |-> x, level |-> l] : x \in BOOLEAN, l \in {0, 1}} \ {[existed |-> FALSE, level |-> 1]}

NewEngine(ds, row) ==
    [datasource |-> ds, pc |-> "new", state |-> FALSE, existed |-> row.existed,
     level |-> row.level, calls |-> 0]

InitStartup ==
    /\ config = [last_level |-> NoLevel]
    /\ sync_level = NoLevel
    /\ level = 0
    /\ status = "NEW"
    /\ effects = <<>>
    /\ queue = <<>>
    /\ rollback_level = NoLevel
    /\ head_hashes = {}
    /\ pc = "idle"
    /\ sync_last = NoLevel
    /\ sync_ret = "none"
    /\ fetched = NoLevel
    /\ plo_ret = "none"
    /\ pending = <<>>
    /\ tx_effects = <<>>
    /\ tx_level = NoLevel
    /\ err = "none"
    /\ pushed = 0
    /\ ev = NoEvent
    /\ prev = NoPrev
    /\ feed = 0
    /\ mt = NoWalk
    /\ variant = "operation"
    /\ \E ds2 \in Datasources : \E r1 \in IndexRows, r2 \in IndexRows :
       \E hs \in [Datasources -> HeadRows] : \E ch \in [Datasources -> BlockHashes] :
          ini = [eng |-> [e \in Engines |-> IF e = "e1" THEN NewEngine("d1", r1)
                                            ELSE NewEngine(ds2, r2)],
                 heads |-> hs,
                 chain |-> ch,
                 block_cache |-> [l \in HeadLevels |-> NoBlock],
                 get_block |-> [l \in HeadLevels |-> 0],
                 halted |-> FALSE]

startupVars == <<config, feed, mt, variant, sync_level, level, status, effects, queue, rollback_level,
                 head_hashes, pc, sync_last, sync_ret, fetched, plo_ret, pending,
                 tx_effects, tx_level, err, pushed, ev, prev>>

\* `if head.hash != block_cache[head.level].hash: reindex(BLOCK_HASH_MISMATCH)`
compare_head(head, cache) ==
    IF head.hash # cache[head.level] THEN "reindexed" ELSE "returned"

\* initialize_state is called: `if self._state: raise RuntimeError`, else the
\* call goes to models.Index.get_or_create
initialize_state(e) ==
    /\ ~ini.halted
    /\ ini.eng[e].pc \in {"new", "returned"}
    /\ ini' = [ini EXCEPT !.eng[e].calls = @ + 1,
                          !.eng[e].pc = IF ini.eng[e].state THEN "raised" ELSE "get_or_create"]
    /\ UNCHANGED startupVars

\* get_or_create returns: `if created or not self._state.level: return`
get_or_create(e) ==
    /\ ~ini.halted
    /\ ini.eng[e].pc = "get_or_create"
    /\ ini' = [ini EXCEPT !.eng[e].state = TRUE,
                          !.eng[e].pc = IF ~ini.eng[e].existed \/ ini.eng[e].level = 0
                                        THEN "returned" ELSE "head"]
    /\ UNCHANGED startupVars

\* models.Head...first() returns: no head, a cached block, or a block to fetch
head_first(e) ==
    /\ ~ini.halted
    /\ ini.eng[e].pc = "head"
    /\ LET head == ini.heads[ini.eng[e].datasource]
           r == IF ~head.exists THEN "returned"
                ELSE IF ini.block_cache[head.level] = NoBlock THEN "get_block"
                ELSE compare_head(head, ini.block_cache)
       IN  ini' = [ini EXCEPT !.eng[e].pc = r, !.halted = (r = "reindexed")]
    /\ UNCHANGED startupVars

\* datasource.get_block(head.level) returns: the cache entry is written and
\* the hashes are compared
get_block(e) ==
    /\ ~ini.halted
    /\ ini.eng[e].pc = "get_block"
    /\ LET head == ini.heads[ini.eng[e].datasource]
           cache == [ini.block_cache EXCEPT ![head.level] = ini.chain[ini.eng[e].datasource]]
           r == compare_head(head, cache)
       IN  ini' = [ini EXCEPT !.block_cache = cache,
                              !.get_block[head.level] = @ + 1,
                              !.eng[e].pc = r, !.halted = (r = "reindexed")]
    /\ UNCHANGED startupVars

NextStartup ==
    \E e \in Engines :
        \/ initialize_state(e)
        \/ get_or_create(e)
        \/ head_first(e)
        \/ get_block(e)

SpecStartup == InitStartup /\ [][NextStartup]_vars

(***************************************************************************)
(* The methods of the three index variants called on their own, from any   *)
(* status and level a row of the Index table can hold                      *)
(***************************************************************************)
MaxCalls == 3

Variants == {"operation", "big_map", "head"}
Statuses == {"NEW", "SYNCING", "REALTIME", "ONESHOT"}

\* BigMapData: level, path and contract of one big map diff
BigMap(l, path) == [level |-> l, path |-> path, contract_address |-> "KT1A"]

\* handlers of the modelled big map index config
BigMapHandler(callback, path, address) ==
    [callback |-> callback, path |-> path, contract_config |-> [address |-> address]]

BigMapHandlers ==
    << BigMapHandler("on_ledger", "ledger", "KT1A"),
       BigMapHandler("on_ledger_copy", "ledger", "KT1A"),
       BigMapHandler("on_other_contract", "ledger", "KT1B") >>

BigMapsItem(big_maps) == [kind |-> "big_maps", ops |-> big_maps, level |-> NoLevel]

\* batches whose items do not share one level
MixedBatches ==
    ({<< Op(a, "h1", 1, "transfer"), Op(b, "h2", 1, "transfer") >> :
        a \in Levels, b \in Levels} \ {B12(l) : l \in Levels})
        \cup {<< Op(1, "h1", 1, "transfer"), Op(1, "h2", 1, "transfer"),
                 Op(2, "h3", 1, "transfer") >>}
MixedBigMaps ==
    {<< BigMap(a, "ledger"), BigMap(b, "ledger") >> : a \in Levels, b \in Levels}
        \ {<< BigMap(l, "ledger"), BigMap(l, "ledger") >> : l \in Levels}

\* batches handed to _process_level_operations and _process_level_big_maps
CallBatches ==
    {<<>>} \cup MixedBatches \cup {B1(l) : l \in Levels} \cup {B12(l) : l \in Levels}
        \cup {B3(l) : l \in Levels}
CallBigMaps ==
    {<<>>} \cup MixedBigMaps
        \cup {<< BigMap(l, "ledger") >> : l \in Levels}
        \cup {<< BigMap(l, "ledger"), BigMap(l, "metadata") >> : l \in Levels}
        \cup {<< BigMap(l, "metadata") >> : l \in Levels}

InitCalls ==
    /\ config = [last_level |-> NoLevel]
    /\ sync_level = NoLevel
    /\ level \in Levels
    /\ status \in Statuses
    /\ effects = <<>>
    /\ queue = <<>>
    /\ rollback_level = NoLevel
    /\ head_hashes = {}
    /\ pc = "idle"
    /\ sync_last = NoLevel
    /\ sync_ret = "none"
    /\ fetched = NoLevel
    /\ plo_ret = "none"
    /\ pending = <<>>
    /\ tx_effects = <<>>
    /\ tx_level = NoLevel
    /\ err = "none"
    /\ pushed = 0
    /\ ev = NoEvent
    /\ prev = NoPrev
    /\ feed = 0
    /\ mt = NoWalk
    /\ ini = NoStartup
    /\ variant \in Variants

\* BigMapIndex._match_big_map
match_big_map(handler_config, big_map) ==
    IF handler_config.path # big_map.path THEN FALSE
    ELSE IF handler_config.contract_config.address # big_map.contract_address THEN FALSE
    ELSE TRUE

\* fire_handler gets None where the operation index passes the subgroup hash
NoSubgroup == <<"None", 0>>

\* BigMapIndex._match_big_maps: big maps in batch order, handlers in config order
RECURSIVE match_big_maps(_, _)
match_big_maps(big_maps, handlers) ==
    IF big_maps = <<>> THEN <<>>
    ELSE LET big_map == Head(big_maps)
             matched == SelectSeq(handlers, LAMBDA h : match_big_map(h, big_map))
         IN  [i \in 1..Len(matched) |->
                 [subgroup |-> NoSubgroup, callback |-> matched[i].callback,
                  args |-> << [kind |-> "BigMapDiff", data |-> big_map] >>]]
                 \o match_big_maps(Tail(big_maps), handlers)

\* a level check that lets the level of the index through
big_map_level_not_below(batch_level, state_level) == ~(batch_level < state_level)

\* `if level <= self.state.level: raise RuntimeError`
big_map_level_accepted(batch_level, state_level) == ~(batch_level <= state_level)

\* _process_level_big_maps up to the point where handlers are fired
plbm_outcome(big_maps, state_level, rb, hh) ==
    IF big_maps = <<>> THEN PloResult("empty", NoLevel, rb, hh, <<>>)
    ELSE LET batch_level == extract_level(big_maps) IN
    IF batch_level = NoLevel THEN PloResult("RuntimeError", NoLevel, rb, hh, <<>>)
    ELSE IF ~big_map_level_accepted(batch_level, state_level)
    THEN PloResult("RuntimeError", batch_level, rb, hh, <<>>)
    ELSE Strict(LAMBDA matched_big_maps :
                    PloResult(IF matched_big_maps = <<>> THEN "bump" ELSE "tx",
                              batch_level, rb, hh, matched_big_maps),
                match_big_maps(big_maps, BigMapHandlers))

\* _process_level_big_maps(big_maps), called from `src` ("sync" or "queue")
process_level_big_maps(big_maps, src) ==
    \E o \in {plbm_outcome(big_maps, level, rollback_level, head_hashes)} :
    /\ level' = IF o.kind = "bump" THEN o.level ELSE level
    /\ pc' = IF o.kind \in {"empty", "bump"} THEN src
             ELSE IF o.kind = "tx" THEN "tx"
             ELSE "failed"
    /\ err' = IF o.kind = "RuntimeError" THEN "RuntimeError" ELSE err
    /\ plo_ret' = IF o.kind = "tx" THEN src ELSE "none"
    /\ pending' = IF o.kind = "tx" THEN o.matches ELSE <<>>
    /\ tx_level' = IF o.kind = "tx" THEN o.level ELSE NoLevel
    /\ tx_effects' = <<>>
    /\ ev' = [NoEvent EXCEPT !.op = "plbm", !.src = src, !.batch = big_maps,
                             !.level = o.level, !.pre_level = level,
                             !.pre_rb = rollback_level, !.pre_hashes = head_hashes,
                             !.pre_effects = effects,
                             !.result = o.kind, !.fired = o.matches, !.prev = prev]
    /\ prev' = IF o.kind = "bump"
               THEN [level |-> o.level, batch |-> big_maps, armed |-> {}]
               ELSE prev
    /\ UNCHANGED <<status, effects, memVars>>

CanCall == pc = "idle" /\ pushed < MaxCalls

\* `_synchronize(last_level)` is called
call_synchronize(last_level) ==
    /\ CanCall
    /\ pushed' = pushed + 1
    /\ sync_last' = last_level
    /\ sync_ret' = "call"
    /\ pc' = IF variant = "head" THEN "head_sync" ELSE "enter_sync"
    /\ err' = "none"
    /\ ev' = [NoEvent EXCEPT !.op = "synchronize", !.arg = last_level, !.pre_level = level]
    /\ UNCHANGED <<cfgVars, sync_level, rowVars, queue, memVars, fetched, txVars, prev>>

\* HeadIndex._synchronize: update_status(status=REALTIME, level=last_level)
head_synchronize ==
    /\ pc = "head_sync"
    /\ status' = "REALTIME"
    /\ level' = sync_last
    /\ pc' = SyncReturn
    /\ ev' = [NoEvent EXCEPT !.op = "head_sync", !.arg = sync_last, !.pre_level = level]
    /\ UNCHANGED <<cfgVars, sync_level, effects, queue, memVars, syncVars, txVars, err,
                   pushed, prev>>

\* BigMapIndex._synchronize: the fetcher yields the next batch, which is processed
fetch_big_maps_by_level(big_maps) ==
    /\ pc = "sync"
    /\ fetched' = big_maps[1].level
    /\ process_level_big_maps(big_maps, "sync")
    /\ UNCHANGED <<cfgVars, sync_level, queue, sync_last, sync_ret, pushed>>

\* a message is pushed to the queue and `_process_queue()` is called
call_process_queue(item) ==
    /\ CanCall
    /\ pushed' = pushed + 1
    /\ queue' = Append(queue, Stamped(item))
    /\ pc' = "queue"
    /\ err' = "none"
    /\ ev' = NoEvent
    /\ UNCHANGED <<cfgVars, sync_level, rowVars, memVars, syncVars, txVars, prev>>

\* BigMapIndex._process_queue: popleft() of a big map batch
process_queue_big_maps ==
    /\ pc = "queue"
    /\ queue # <<>>
    /\ Head(queue).kind = "big_maps"
    /\ queue' = Tail(queue)
    /\ process_level_big_maps(Head(queue).ops, "queue")
    /\ UNCHANGED <<cfgVars, sync_level, syncVars, pushed>>

\* HeadBlockData: level and hash of one head block
HeadBlock(l, h) == [level |-> l, hash |-> h]

HeadItem(head) == [kind |-> "head", ops |-> << head >>, level |-> NoLevel]

\* handlers of the modelled head index config
HeadHandlers == << [callback |-> "on_head"], [callback |-> "on_head_copy"] >>

\* HeadIndex._call_matched_handler: fire_handler(callback, ..., head.hash, (head,))
head_matches(head) ==
    [i \in 1..Len(HeadHandlers) |->
        [subgroup |-> <<head.hash, 0>>, callback |-> HeadHandlers[i].callback,
         args |-> << [kind |-> "HeadBlockData", data |-> head] >>]]

\* `if level <= self.state.level: raise RuntimeError` of HeadIndex._process_queue
head_level_accepted(head_level, state_level) == ~(head_level <= state_level)

\* HeadIndex._process_queue: popleft() of a head, the level check, the transaction
process_queue_head ==
    /\ pc = "queue"
    /\ queue # <<>>
    /\ Head(queue).kind = "head"
    /\ queue' = Tail(queue)
    /\ LET head == Head(queue).ops[1]
           ok == head_level_accepted(head.level, level)
       IN  /\ pc' = IF ok THEN "tx" ELSE "failed"
           /\ err' = IF ok THEN err ELSE "RuntimeError"
           /\ plo_ret' = IF ok THEN "queue" ELSE "none"
           /\ pending' = IF ok THEN head_matches(head) ELSE <<>>
           /\ tx_level' = IF ok THEN head.level ELSE NoLevel
           /\ tx_effects' = <<>>
           /\ ev' = [NoEvent EXCEPT !.op = "head", !.src = "queue", !.batch = << head >>,
                                    !.level = head.level, !.pre_level = level,
                                    !.pre_rb = rollback_level, !.pre_hashes = head_hashes,
                                    !.pre_effects = effects,
                                    !.result = IF ok THEN "tx" ELSE "RuntimeError",
                                    !.fired = IF ok THEN head_matches(head) ELSE <<>>,
                                    !.prev = prev]
    /\ UNCHANGED <<cfgVars, sync_level, rowVars, memVars, syncVars, pushed, prev>>

NextCalls ==
    \/ \E l \in Levels : call_synchronize(l)
    \/ variant = "operation" /\ \E b \in CallBatches : call_process_queue(OpsItem(b))
    \/ variant = "operation" /\ \E l \in Levels : call_process_queue(RollbackItem(l))
    \/ variant = "big_map" /\ \E b \in CallBigMaps : call_process_queue(BigMapsItem(b))
    \/ variant = "head" /\ \E l \in Levels : call_process_queue(HeadItem(HeadBlock(l, "A")))
    \/ enter_sync_state
    \/ head_synchronize
    \/ variant = "operation" /\ \E l \in Levels : \E b \in FetchBatches(l) :
          fetched < l /\ l <= sync_last /\ fetch_operations_by_level(b)
    \/ variant = "big_map" /\ \E l \in Levels : \E b \in CallBigMaps \ ({<<>>} \cup MixedBigMaps) :
          b[1].level = l /\ fetched < l /\ l <= sync_last /\ fetch_big_maps_by_level(b)
    \/ exit_sync_state
    \/ process_queue_done
    \/ process_queue_rollback
    \/ process_queue_operations
    \/ process_queue_big_maps
    \/ process_queue_head
    \/ call_matched_handler
    \/ call_matched_handler_fails
    \/ commit_level

SpecCalls == InitCalls /\ [][NextCalls]_vars

(***************************************************************************)
(* One level with several subgroups and several handlers: the order in     *)
(* which the matched handlers fire                                         *)
(***************************************************************************)
\* handlers of an index config whose patterns overlap
OrderHandlers ==
    << Handler("on_transfer", << TxSlot("transfer", FALSE) >>),
       Handler("on_transfer_approve",
               << TxSlot("transfer", FALSE), TxSlot("approve", TRUE) >>) >>

\* operations of one level: two hashes, two entrypoints, two targets
OrderOps ==
    {[Op(1, h, 1, e) EXCEPT !.target_address = t] :
        h \in {"h1", "h2"}, e \in {"transfer", "approve"}, t \in {"KT1A", "KT1B"}}

\* batches of up to MaxOps operations, no operation twice
OrderBatches ==
    {b \in SeqsUpTo(OrderOps, MaxOps) \ {<<>>} :
        \A i \in 1..Len(b) : \A j \in 1..Len(b) : i # j => b[i] # b[j]}

InitOrder ==
    /\ config = [last_level |-> NoLevel]
    /\ sync_level = NoLevel
    /\ level = 0
    /\ status = "REALTIME"
    /\ effects = <<>>
    /\ queue = <<>>
    /\ rollback_level = NoLevel
    /\ head_hashes = {}
    /\ pc = "idle"
    /\ sync_last = NoLevel
    /\ sync_ret = "none"
    /\ fetched = NoLevel
    /\ plo_ret = "none"
    /\ pending = <<>>
    /\ tx_effects = <<>>
    /\ tx_level = NoLevel
    /\ err = "none"
    /\ pushed = 0
    /\ ev = NoEvent
    /\ prev = NoPrev
    /\ feed = 0
    /\ ini = NoStartup
    /\ variant = "operation"
    /\ mt \in {[pc |-> "batch", ops |-> b, handler |-> Handler("none", <<>>),
                 s |-> WalkStart(<<>>, {})] : b \in OrderBatches}

\* _process_level_operations from `_match_operations` on, no rollback armed:
\* the level bump when nothing matched, the transaction otherwise
process_level_matched ==
    /\ pc = "idle"
    /\ mt.pc = "batch"
    /\ \E m \in {match_operations(mt.ops, OrderHandlers, {})} :
       LET matched_subgroups == m.matched_subgroups
           batch_level == extract_level(mt.ops)
       IN  /\ head_hashes' = m.head_hashes
           /\ level' = IF matched_subgroups = <<>> THEN batch_level ELSE level
           /\ pc' = IF matched_subgroups = <<>> THEN "idle" ELSE "tx"
           /\ plo_ret' = IF matched_subgroups = <<>> THEN "none" ELSE "idle"
           /\ pending' = matched_subgroups
           /\ tx_level' = IF matched_subgroups = <<>> THEN NoLevel ELSE batch_level
           /\ tx_effects' = <<>>
           /\ ev' = [NoEvent EXCEPT !.op = "plo", !.src = "idle", !.batch = mt.ops,
                                    !.level = batch_level, !.pre_level = level,
                                    !.pre_effects = effects,
                                    !.result = IF matched_subgroups = <<>> THEN "bump"
                                               ELSE "tx",
                                    !.fired = matched_subgroups, !.prev = prev]
           /\ prev' = IF matched_subgroups = <<>>
                      THEN [level |-> batch_level, batch |-> mt.ops, armed |-> {}]
                      ELSE prev
    /\ mt' = [mt EXCEPT !.pc = "matched"]
    /\ UNCHANGED <<config, feed, ini, variant, sync_level, status, effects, queue,
                   rollback_level, syncVars, err, pushed>>

NextOrder ==
    \/ process_level_matched
    \/ call_matched_handler
    \/ call_matched_handler_fails
    \/ commit_level

SpecOrder == InitOrder /\ [][NextOrder]_vars

(***************************************************************************)
(* Handler arguments whose raw data may fail schema validation             *)
(***************************************************************************)
\* raw values: one that validates against the declared schema, one that does not
RawValues == {"valid", "invalid"}

\* `parameter_type.parse_obj(raw)`: FALSE stands for the ValidationError
parse_obj(raw) == raw = "valid"

\* OperationData with its parameter_json
DecodedOp(h, e, raw) ==
    [level |-> 1, hash |-> h, counter |-> 1, type |-> "transaction", entrypoint |-> e,
     target_address |-> "KT1A", originated_contract_address |-> NoAddr,
     parameter_json |-> raw]

\* BigMapData with its action, key and value
DecodedBigMap(path, has_value, key, value) ==
    [level |-> 1, path |-> path, contract_address |-> "KT1A",
     action |-> [has_key |-> TRUE, has_value |-> has_value], key |-> key, value |-> value]

DecodeOps ==
    {DecodedOp(h, e, raw) : h \in {"h1", "h2"}, e \in {"transfer", "mint"}, raw \in RawValues}

DecodeBigMaps ==
    {DecodedBigMap(path, hv, k, v) :
        path \in {"ledger", "metadata"}, hv \in BOOLEAN, k \in RawValues, v \in {"valid"}}
        \cup {DecodedBigMap("ledger", TRUE, "valid", "invalid")}

\* batches of up to MaxOps items, no item twice
DecodeBatches(items) ==
    {b \in SeqsUpTo(items, MaxOps) \ {<<>>} :
        \A i \in 1..Len(b) : \A j \in 1..Len(b) : i # j => b[i] # b[j]}

InitDecode ==
    /\ config = [last_level |-> NoLevel]
    /\ sync_level = NoLevel
    /\ level = 0
    /\ status = "REALTIME"
    /\ effects = <<>>
    /\ queue = <<>>
    /\ rollback_level = NoLevel
    /\ head_hashes = {}
    /\ pc = "idle"
    /\ sync_last = NoLevel
    /\ sync_ret = "none"
    /\ fetched = NoLevel
    /\ plo_ret = "none"
    /\ pending = <<>>
    /\ tx_effects = <<>>
    /\ tx_level = NoLevel
    /\ err = "none"
    /\ pushed = 0
    /\ ev = NoEvent
    /\ prev = NoPrev
    /\ feed = 0
    /\ ini = NoStartup
    /\ variant \in {"operation", "big_map"}
    /\ mt \in {[pc |-> "batch", ops |-> b, handler |-> Handler("none", <<>>),
                 s |-> WalkStart(<<>>, {})] :
                    b \in IF variant = "operation" THEN DecodeBatches(DecodeOps)
                          ELSE DecodeBatches(DecodeBigMaps)}

\* _prepare_handler_args raises InvalidDataError for this argument: the parameter
\* of a transaction, the key or the value of a big map diff fails validation
invalid_data(arg) ==
    IF arg.kind = "Transaction" THEN ~parse_obj(arg.data.parameter_json)
    ELSE IF arg.kind = "BigMapDiff"
    THEN \/ arg.data.action.has_key /\ ~parse_obj(arg.data.key)
         \/ arg.data.action.has_value /\ ~parse_obj(arg.data.value)
    ELSE FALSE

\* a match whose arguments cannot be prepared
match_invalid(m) == \E k \in 1..Len(m.args) : invalid_data(m.args[k])

\* a matcher that keeps the matches made before the one that failed
matcher_outcome_keeps_earlier(matched) ==
    LET bad == {i \in 1..Len(matched) : match_invalid(matched[i])}
    IN  IF bad = {} THEN [error |-> FALSE, matches |-> matched]
        ELSE [error |-> TRUE,
              matches |-> SubSeq(matched, 1, (CHOOSE i \in bad : \A j \in bad : i <= j) - 1)]

\* _match_operations / _match_big_maps with _prepare_handler_args: the exception
\* leaves the matcher and the matches collected so far are dropped with it
matcher_outcome(matched) ==
    IF \E i \in 1..Len(matched) : match_invalid(matched[i])
    THEN [error |-> TRUE, matches |-> <<>>]
    ELSE [error |-> FALSE, matches |-> matched]

\* the matches of the batch before their arguments are prepared
matched_of(batch) ==
    IF variant = "operation" THEN match_operations(batch, Handlers, {}).matched_subgroups
    ELSE match_big_maps(batch, BigMapHandlers)

\* _process_level_operations / _process_level_big_maps from the matcher on: the
\* matcher may raise; otherwise the level bump or the transaction
process_level_prepared ==
    /\ pc = "idle"
    /\ mt.pc = "batch"
    /\ \E o \in {matcher_outcome(matched_of(mt.ops))} :
       LET batch_level == extract_level(mt.ops)
           r == IF o.error THEN "InvalidDataError"
                ELSE IF o.matches = <<>> THEN "bump" ELSE "tx"
       IN  /\ head_hashes' = IF variant = "operation" THEN hashes_of(mt.ops)
                             ELSE head_hashes
           /\ level' = IF r = "bump" THEN batch_level ELSE level
           /\ pc' = IF r = "InvalidDataError" THEN "failed"
                    ELSE IF r = "bump" THEN "idle" ELSE "tx"
           /\ err' = IF r = "InvalidDataError" THEN "InvalidDataError" ELSE err
           /\ plo_ret' = IF r = "tx" THEN "idle" ELSE "none"
           /\ pending' = o.matches
           /\ tx_level' = IF r = "tx" THEN batch_level ELSE NoLevel
           /\ tx_effects' = <<>>
           /\ ev' = [NoEvent EXCEPT !.op = IF variant = "operation" THEN "plo" ELSE "plbm",
                                    !.src = "idle", !.batch = mt.ops,
                                    !.level = batch_level, !.pre_level = level,
                                    !.pre_effects = effects, !.result = r,
                                    !.fired = o.matches, !.prev = prev]
           /\ prev' = IF r = "bump"
                      THEN [level |-> batch_level, batch |-> mt.ops, armed |-> {}]
                      ELSE prev
    /\ mt' = [mt EXCEPT !.pc = "matched"]
    /\ UNCHANGED <<config, feed, ini, variant, sync_level, status, effects, queue,
                   rollback_level, syncVars, pushed>>

NextDecode ==
    \/ process_level_prepared
    \/ call_matched_handler
    \/ call_matched_handler_fails
    \/ commit_level

SpecDecode == InitDecode /\ [][NextDecode]_vars

(***************************************************************************)
(* Claims                                                                  *)
(***************************************************************************)
EffectsOf(matches, l) == [i \in 1..Len(matches) |-> EffectOf(matches[i], l)]

\* a step of an open level transaction leaves the persisted row and effects
\* alone, or commits every effect of the batch together with the level
TransactionStep ==
    pc = "tx" =>
        \/ /\ effects' = effects
           /\ level' = level
        \/ /\ effects' = effects \o EffectsOf(ev.fired, ev.level)
           /\ level' = ev.level
           /\ ev'.result = "committed"

\* handler effects are persisted by a transaction step only
EffectsOnlyInTransaction == effects' # effects => pc = "tx"

\* no persisted effect belongs to a level above the persisted state.level
NoEffectAboveLevel == \A i \in 1..Len(effects) : effects[i].level <= level

\* C1: a batch of level L with at least one match is processed atomically: all
\* of its handler effects are persisted together with state.level = L, or none
\* is and state.level is unchanged; no persisted state shows a part of L's
\* effects, or L's effects with state.level < L
C1_LevelAtomic ==
    /\ [][TransactionStep /\ EffectsOnlyInTransaction]_vars
    /\ []NoEffectAboveLevel

\* the transaction part of C1 on its own
C1_StepAtomic == [][TransactionStep /\ EffectsOnlyInTransaction]_vars

\* the last step was a _process_level_operations call on a non-empty batch
\* whose items share one level
PloEvent == ev.op = "plo" /\ ev.batch # <<>> /\ ev.level # NoLevel

\* ... which ended with the level bumped (no match) or the transaction committed
PloSucceeded == PloEvent /\ ev.result \in {"bump", "committed"}

\* hashes the matches of the call were fired for
FiredHashes == {ev.fired[i].subgroup[1] : i \in 1..Len(ev.fired)}

\* C2: of two batches processed successfully one after the other, the second
\* has the higher level unless a single level rollback was armed between them at
\* that same level; a batch at state.level is rejected when no rollback is armed
C2_AscendingLevels ==
    /\ (PloSucceeded /\ ev.prev.level # NoLevel) =>
          \/ ev.prev.level < ev.level
          \/ (ev.prev.level = ev.level /\ ev.level \in ev.prev.armed)
    /\ (PloEvent /\ ev.level = ev.pre_level /\ ev.pre_rb = NoLevel) =>
          ev.result = "RuntimeError"

\* C3: re-running _process_level_operations on the batch that was just processed
\* successfully, state.level being the batch level and no rollback armed, fires
\* no handler
C3_RerunFiresNothing ==
    (PloEvent /\ ev.batch = ev.prev.batch /\ ev.prev.level = ev.pre_level
              /\ ev.level = ev.pre_level /\ ev.prev.armed = {} /\ ev.pre_rb = NoLevel) =>
        ev.fired = <<>>

\* C4: after a batch at level L was processed, SingleLevelRollback(L) and a
\* re-delivered batch at level L holding every hash of the processed one fire
\* handlers only for the new hashes; no reindex, state.level stays L and the
\* rollback is disarmed
C4_RollbackRedelivery ==
    (PloEvent /\ ev.prev.level = ev.level /\ ev.pre_level = ev.level
              /\ ev.level \in ev.prev.armed
              /\ hashes_of(ev.prev.batch) \subseteq hashes_of(ev.batch)) =>
        /\ ev.result \in {"bump", "tx", "committed", "aborted"}
        /\ FiredHashes \cap hashes_of(ev.prev.batch) = {}
        /\ ev.fired = match_operations(
                         SelectSeq(ev.batch, LAMBDA op : op.hash \notin hashes_of(ev.prev.batch)),
                         Handlers, {}).matched_subgroups
        /\ level = ev.level
        /\ rollback_level = NoLevel

\* C5: with a rollback armed at level L, a re-delivered batch at level L that
\* lacks a hash of _head_hashes triggers reindex(ROLLBACK) before any handler is
\* fired; with no hash missing reindex is not invoked
C5_MissingHashReindex ==
    (PloEvent /\ ev.pre_rb # NoLevel /\ ev.level = ev.pre_rb) =>
        /\ (ev.result = "reindex") <=> (ev.pre_hashes \ hashes_of(ev.batch) # {})
        /\ ev.result = "reindex" => (ev.fired = <<>> /\ effects = ev.pre_effects)

\* C6: _single_level_rollback(level) while armed raises RuntimeError, at every
\* level; unarmed it ignores level > state.level, arms at level = state.level
\* and raises at level < state.level
C6_SingleLevelRollback ==
    ev.op = "rollback" =>
        IF ev.pre_rb # NoLevel
        THEN ev.result = "RuntimeError" /\ rollback_level = ev.pre_rb
        ELSE IF ev.pre_level < ev.arg
        THEN ev.result = "ignored" /\ rollback_level = NoLevel
        ELSE IF ev.pre_level = ev.arg
        THEN ev.result = "armed" /\ rollback_level = ev.arg
        ELSE ev.result = "RuntimeError" /\ rollback_level = NoLevel

\* C7: in one-shot mode process() synchronizes to last_level, sets the status
\* ONESHOT at last_level and returns: the sync_level check, with its
\* RuntimeError, second synchronization and queue drain, is never reached
C7_OneshotReturns ==
    Truthy(config.last_level) =>
        /\ ev.op = "oneshot_status" =>
              (status = "ONESHOT" /\ level = config.last_level /\ pc = "idle")
        /\ ev.op # "check"

\* C8: outside one-shot mode process() raises RuntimeError when sync_level is
\* unknown; with state.level < sync_level it drops the queued items without
\* firing a handler and synchronizes to sync_level, which ends with status
\* REALTIME at sync_level; the queue is drained only when state.level >= sync_level
C8_ProcessDispatch ==
    ~Truthy(config.last_level) =>
        /\ ev.op = "check" =>
              /\ ev.arg = NoLevel =>
                    (ev.result = "RuntimeError" /\ pc = "failed" /\ err = "RuntimeError"
                        /\ queue = ev.pre_queue)
              /\ (ev.arg # NoLevel /\ ev.pre_level < ev.arg) =>
                    (ev.result = "sync" /\ pc = "enter_sync" /\ sync_last = ev.arg
                        /\ queue = <<>> /\ effects = ev.pre_effects /\ pending = <<>>)
              /\ ev.result = "queue" =>
                    (ev.arg # NoLevel /\ ev.pre_level >= ev.arg /\ queue = ev.pre_queue)
        /\ pc = "queue" => (sync_level # NoLevel /\ level >= sync_level)
        /\ (ev.op = "exit_sync" /\ ev.src = "process") =>
              (status = "REALTIME" /\ level = sync_level /\ pc = "idle")

\* process() dropped a non-empty queue and went on to synchronize
C8_Witness ==
    /\ ~Truthy(config.last_level)
    /\ ev.op = "check" /\ ev.result = "sync" /\ ev.pre_queue # <<>> /\ queue = <<>>

\* C9: every match _match_operations emits has as many arguments as the
\* pattern has slots, and every required slot is bound to an operation
C9_MatchShape ==
    \A i \in 1..Len(mt.s.out) :
        /\ Len(mt.s.out[i].args) = Len(mt.handler.pattern)
        /\ \A j \in 1..Len(mt.handler.pattern) :
              ~mt.handler.pattern[j].optional =>
                  (j <= Len(mt.s.out[i].args) /\ mt.s.out[i].args[j] # NoneArg)

\* C10: a subgroup holding only the transfer, under the pattern [required
\* transfer, optional approve], yields one handler fire whose arguments are the
\* transaction and a None placeholder, and state.level advances to the batch level
C10_OptionalPlaceholder ==
    (PloEvent /\ ev.pre_rb = NoLevel /\ ev.result \in {"tx", "committed"}) =>
        /\ \A k \in 1..Len(ev.batch) :
              ev.batch[k].entrypoint = "transfer" =>
                 \E i \in 1..Len(ev.fired) :
                    /\ ev.fired[i].subgroup = OperationSubgroup(ev.batch[k])
                    /\ ev.fired[i].args = << [kind |-> "Transaction", data |-> ev.batch[k]],
                                             NoneArg >>
                    /\ \A j \in 1..Len(ev.fired) :
                          ev.fired[j].subgroup = ev.fired[i].subgroup => j = i
        /\ ev.result = "committed" => level = ev.level

\* C11: the persisted state.level never decreases, whatever sequence of
\* process(), push and rollback steps runs (a reindex ends the run and leaves
\* the row to the restart)
C11_LevelMonotone == [][level' >= level]_vars

\* C12: when a handler fails (or the call is cancelled) inside the transaction
\* of a batch taken from the realtime queue, the transaction is rolled back,
\* state.level is unchanged and the batch is still the next item of the queue
C12_FailedBatchKept ==
    (ev.op = "plo" /\ ev.src = "queue" /\ ev.result = "aborted") =>
        /\ effects = ev.pre_effects
        /\ level = ev.pre_level
        /\ queue # <<>>
        /\ Head(queue).kind = "operations"
        /\ Head(queue).ops = ev.batch

IsPrefix(p, q) == Len(p) <= Len(q) /\ SubSeq(q, 1, Len(p)) = p

\* the queue holds an item that was pushed while _synchronize was running
HasSyncArrival(q) == \E i \in 1..Len(q) : q[i].at = "sync"

\* while _synchronize runs the queue only grows at its tail
ArrivalsAccumulate == pc = "sync" => IsPrefix(queue, queue')

\* _process_queue takes the items from the head, one by one
DrainIsFifo == (pc = "queue" /\ queue # <<>>) => queue' = Tail(queue)

BindsOrigination(m, k, a) ==
    /\ k <= Len(m.args)
    /\ m.args[k].kind = "Origination"
    /\ m.args[k].data.originated_contract_address = a

\* C14: across the matches emitted for one subgroup, no origination slot is
\* bound twice to operations with the same originated contract address
C14_OriginationOnce ==
    \A i, j \in 1..Len(mt.s.out) : \A k \in 1..Len(mt.handler.pattern) :
        \A a \in Addresses :
            (BindsOrigination(mt.s.out[i], k, a) /\ BindsOrigination(mt.s.out[j], k, a))
                => i = j

\* the subgroup originates one address twice, the slot took the first
\* origination and the second one has been walked over
C14_Witness ==
    /\ mt.pc = "done"
    /\ \E a \in Addresses :
          /\ Cardinality({n \in 1..Len(mt.ops) :
                             mt.ops[n].originated_contract_address = a}) >= 2
          /\ \E i \in 1..Len(mt.s.out) : BindsOrigination(mt.s.out[i], 1, a)

\* the first initialize_state call of engine e has ended
FirstCallEnded(e) == ini.eng[e].pc \in {"returned", "reindexed", "raised"}

\* the row existed above level 0, the datasource has a Head row and the block
\* of the datasource at the Head's level has another hash than the Head row
HeadMismatch(e) ==
    /\ ini.eng[e].existed
    /\ ini.eng[e].level > 0
    /\ ini.heads[ini.eng[e].datasource].exists
    /\ ini.chain[ini.eng[e].datasource] # ini.heads[ini.eng[e].datasource].hash

\* C15: initialize_state invokes reindex(BLOCK_HASH_MISMATCH) exactly when the
\* row existed with level > 0, the datasource has a Head row and the block at
\* the Head's level has another hash; a second call raises RuntimeError
C15_StartupReindex ==
    \A e \in DOMAIN ini.eng :
        /\ (ini.eng[e].calls = 1 /\ FirstCallEnded(e)) =>
              (ini.eng[e].pc = "reindexed" <=> HeadMismatch(e))
        /\ ini.eng[e].calls = 2 => ini.eng[e].pc = "raised"

\* a step of _synchronize(last_level) that decides what the call does
SyncDecides == pc \in {"enter_sync", "head_sync"}

\* C16: _synchronize(last_level) with last_level == state.level is a no-op that
\* changes neither status nor level, for every index variant and every status
C16_SyncAtLevelNoop ==
    [][(SyncDecides /\ sync_last = level) =>
          (status' = status /\ level' = level /\ err' = err /\ pc' = SyncReturn)]_vars

\* C16 as the code has it: OperationIndex and BigMapIndex return without a change
\* in every status; HeadIndex keeps the level and sets status REALTIME
C16_SyncAtLevel ==
    [][(SyncDecides /\ sync_last = level) =>
          /\ level' = level
          /\ err' = err
          /\ pc' = SyncReturn
          /\ status' = IF variant = "head" THEN "REALTIME" ELSE status]_vars

\* _synchronize(state.level) has returned from an index that is not one-shot
C16_Witness ==
    /\ ev.op = "enter_sync"
    /\ ev.result = "noop"
    /\ ev.arg = ev.pre_level
    /\ status \in {"NEW", "SYNCING", "REALTIME"}
    /\ variant = "big_map"
    /\ pc = "idle"

EmptyBatchNext ==
    /\ pc = "queue"
    /\ queue # <<>>
    /\ Head(queue).kind \in {"operations", "big_maps"}
    /\ Head(queue).ops = <<>>

\* C18: processing an empty batch with _process_level_operations or
\* _process_level_big_maps is a no-op: level, status, the rollback arming and
\* _head_hashes are unchanged, no handler is fired and nothing is raised
C18_EmptyBatchNoop ==
    [][EmptyBatchNext =>
          /\ UNCHANGED <<level, status, rollback_level, head_hashes, effects, err>>
          /\ pending' = <<>>
          /\ tx_effects' = <<>>
          /\ ev'.fired = <<>>
          /\ ev'.result = "empty"
          /\ pc' = "queue"]_vars

\* an empty batch was processed while a rollback was armed and hashes were kept
C18_Witness ==
    /\ ev.op = "plo"
    /\ ev.batch = <<>>
    /\ ev.result = "empty"
    /\ rollback_armed(rollback_level)
    /\ head_hashes # {}

\* all items of the batch share one level
SameLevel(message) ==
    \A i \in 1..Len(message) : \A j \in 1..Len(message) : message[i].level = message[j].level

\* C19: _extract_level returns the common level of a non-empty batch whose items
\* share one level and raises RuntimeError for a batch of mixed levels; a batch
\* of mixed levels never fires a handler or changes state.level
C19_ExtractLevel ==
    /\ \A message \in (CallBatches \cup CallBigMaps) \ {<<>>} :
          extract_level(message) = IF SameLevel(message) THEN message[1].level ELSE NoLevel
    /\ (ev.op \in {"plo", "plbm"} /\ ev.batch # <<>>) =>
          IF SameLevel(ev.batch)
          THEN ev.level = ev.batch[1].level
          ELSE /\ ev.result = "RuntimeError"
               /\ ev.fired = <<>>
               /\ pending = <<>>
               /\ level = ev.pre_level
               /\ effects = ev.pre_effects
               /\ pc = "failed"
               /\ err = "RuntimeError"

\* a batch of mixed levels, each above the level of the index, was refused
C19_Witness ==
    /\ ev.op = "plo"
    /\ ~SameLevel(ev.batch)
    /\ \A i \in 1..Len(ev.batch) : ev.batch[i].level > ev.pre_level
    /\ ev.result = "RuntimeError"
    /\ level = ev.pre_level
    /\ pc = "failed"

\* where a subgroup key appears first in the batch
FirstPos(batch, key) ==
    CHOOSE i \in 1..Len(batch) :
        /\ OperationSubgroup(batch[i]) = key
        /\ \A j \in 1..(i - 1) : OperationSubgroup(batch[j]) # key

\* position of a handler in the configured list
HandlerPos(callback) ==
    CHOOSE i \in 1..Len(OrderHandlers) : OrderHandlers[i].callback = callback

\* positions in the batch of the operations a match consumed
ArgPositions(batch, m) ==
    {i \in 1..Len(batch) : \E k \in 1..Len(m.args) :
        m.args[k].kind # "None" /\ m.args[k].data = batch[i]}

\* match a comes before match b: by subgroup, then handler, then operations
MatchBefore(batch, a, b) ==
    \/ FirstPos(batch, a.subgroup) < FirstPos(batch, b.subgroup)
    \/ /\ a.subgroup = b.subgroup
       /\ \/ HandlerPos(a.callback) < HandlerPos(b.callback)
          \/ /\ a.callback = b.callback
             /\ \A x \in ArgPositions(batch, a) : \A y \in ArgPositions(batch, b) : x < y

\* C20: within one level the matched handlers fire in the order of the list
\* _match_operations returns: subgroups by first appearance of their key in the
\* batch, handlers of a subgroup in configured order, repeated matches of one
\* handler in the order of the operations they consumed
C20_FireOrder ==
    (ev.op = "plo" /\ mt.pc = "matched") =>
        /\ \A i \in 1..Len(ev.fired) : \A j \in 1..Len(ev.fired) :
              i < j => MatchBefore(ev.batch, ev.fired[i], ev.fired[j])
        /\ pc = "tx" =>
              tx_effects \o EffectsOf(pending, tx_level) = EffectsOf(ev.fired, tx_level)
        /\ ev.result = "committed" =>
              effects = ev.pre_effects \o EffectsOf(ev.fired, ev.level)

\* a committed level with interleaved subgroups, two handlers fired for one
\* subgroup and one handler fired twice for one subgroup
C20_Witness ==
    /\ ev.op = "plo"
    /\ mt.pc = "matched"
    /\ ev.result = "committed"
    /\ effects = EffectsOf(ev.fired, ev.level)
    /\ \E p \in 1..Len(ev.batch) : \E q \in 1..Len(ev.batch) : \E r \in 1..Len(ev.batch) :
          /\ p < q /\ q < r
          /\ OperationSubgroup(ev.batch[p]) = OperationSubgroup(ev.batch[r])
          /\ OperationSubgroup(ev.batch[p]) # OperationSubgroup(ev.batch[q])
    /\ \E i \in 1..Len(ev.fired) : \E j \in 1..Len(ev.fired) :
          /\ i < j
          /\ ev.fired[i].subgroup = ev.fired[j].subgroup
          /\ ev.fired[i].callback = ev.fired[j].callback
    /\ \E i \in 1..Len(ev.fired) : \E j \in 1..Len(ev.fired) :
          /\ ev.fired[i].subgroup = ev.fired[j].subgroup
          /\ ev.fired[i].callback # ev.fired[j].callback
    /\ \E i \in 1..Len(ev.fired) : \E j \in 1..Len(ev.fired) :
          ev.fired[i].subgroup # ev.fired[j].subgroup

\* a big map batch of one level or a head was handed to its index
LevelChecked == ev.op \in {"plbm", "head"} /\ ev.level # NoLevel

\* C21: BigMapIndex and HeadIndex accept an item only above state.level: at or
\* below it the item raises RuntimeError, fires nothing and leaves the level; an
\* accepted item at level L fires its handlers and sets the level to L in one
\* transaction, or bumps the level when a big map batch has no match
C21_StrictlyAbove ==
    LevelChecked =>
        IF ev.level <= ev.pre_level
        THEN /\ ev.result = "RuntimeError"
             /\ ev.fired = <<>>
             /\ pending = <<>>
             /\ level = ev.pre_level
             /\ effects = ev.pre_effects
             /\ pc = "failed"
             /\ err = "RuntimeError"
        ELSE /\ ev.result \in {"bump", "tx", "committed", "aborted"}
             /\ ev.result = "bump" =>
                   /\ ev.op = "plbm"
                   /\ ev.fired = <<>>
                   /\ level = ev.level
                   /\ effects = ev.pre_effects
             /\ ev.result \in {"tx", "aborted"} =>
                   /\ ev.fired # <<>>
                   /\ level = ev.pre_level
                   /\ effects = ev.pre_effects
             /\ ev.result = "tx" =>
                   tx_effects \o EffectsOf(pending, tx_level) = EffectsOf(ev.fired, ev.level)
             /\ ev.result = "committed" =>
                   /\ ev.fired # <<>>
                   /\ level = ev.level
                   /\ effects = ev.pre_effects \o EffectsOf(ev.fired, ev.level)

\* a big map batch at the level of the index was refused after an earlier one
\* was committed
C21_Witness ==
    /\ ev.op = "plbm"
    /\ ev.level = ev.pre_level
    /\ ev.level > 0
    /\ ev.result = "RuntimeError"
    /\ effects # <<>>
    /\ pc = "failed"

\* every engine in initialize_state is on the same datasource
SharedDatasource ==
    \A e1 \in DOMAIN ini.eng : \A e2 \in DOMAIN ini.eng :
        ini.eng[e1].datasource = ini.eng[e2].datasource

\* C22: with the engines sharing a datasource, get_block is fetched and the
\* block cache is written (on the return of that fetch) at most once per level,
\* however the initialize_state calls interleave
C22_FetchedOnce ==
    SharedDatasource => \A l \in DOMAIN ini.get_block : ini.get_block[l] <= 1

\* a batch was processed one of whose matches has data that fails validation
DecodingFailed ==
    /\ ev.op \in {"plo", "plbm"}
    /\ mt.pc = "matched"
    /\ \E i \in 1..Len(matched_of(ev.batch)) : match_invalid(matched_of(ev.batch)[i])

\* C23: when decoding fails with InvalidDataError while the handler arguments
\* of a level are prepared, the error leaves process(), no handler of that level
\* is fired, earlier matches of the batch included, and state.level is unchanged
C23_InvalidDataAborts ==
    DecodingFailed =>
        /\ ev.result = "InvalidDataError"
        /\ err = "InvalidDataError"
        /\ pc = "failed"
        /\ ev.fired = <<>>
        /\ pending = <<>>
        /\ tx_effects = <<>>
        /\ effects = ev.pre_effects
        /\ level = ev.pre_level

\* a batch failed whose first match had valid data and a later one had not
C23_Witness ==
    /\ DecodingFailed
    /\ ev.op = "plo"
    /\ err = "InvalidDataError"
    /\ Len(matched_of(ev.batch)) >= 2
    /\ ~match_invalid(matched_of(ev.batch)[1])

\* operations the walk has consumed so far
Consumed == mt.s.operation_idx - 1

\* C24: the walk of _match_operations over a finite subgroup terminates and
\* emits at most one match per consumed operation plus one trailing match, also
\* for a pattern whose slots are all optional
C24_BoundedMatches ==
    mt.pc \in {"loop", "done"} =>
        Len(mt.s.out) <= Consumed + (IF mt.pc = "done" THEN 1 ELSE 0)

\* an armed rollback was reconciled against a batch of its level, outside
\* one-shot mode
Reconciled ==
    /\ ev.op = "plo"
    /\ rollback_armed(ev.pre_rb)
    /\ ev.level = ev.pre_rb
    /\ ev.pre_level = ev.pre_rb
    /\ ~Truthy(config.last_level)

\* C25: when an armed rollback at level L is reconciled, _head_hashes holds the
\* hashes of the operations already processed at L: those of the last batch
\* processed at L are in it, and it is empty when no batch was processed at L
C25_HeadHashesOfLevel ==
    Reconciled =>
        IF ev.prev.level = ev.level
        THEN hashes_of(ev.prev.batch) \subseteq ev.pre_hashes
        ELSE ev.pre_hashes = {}

\* _synchronize handed a fetched batch above the level of an armed rollback to
\* _process_level_operations
FetchedWhileArmed ==
    /\ ev.op = "plo"
    /\ ev.src = "sync"
    /\ rollback_armed(ev.pre_rb)
    /\ ev.level # NoLevel
    /\ ev.level > ev.pre_rb

\* C26: a rollback armed at level L does not make a later synchronization fail:
\* batches fetched above L are processed without RuntimeError
C26_SyncAfterRollback ==
    FetchedWhileArmed => (ev.result # "RuntimeError" /\ pc # "failed")

====
